---- MODULE Spec2Model ----
(***************************************************************************)
(* Model of dolibarr_mcp_server.py: the DolibarrAPI client (query builder, *)
(* request primitive, resource operations), the tool dispatcher            *)
(* handle_call_tool and the startup sequence of main.                      *)
(*                                                                         *)
(* Text is modelled as a sequence of pieces.  A piece is either one        *)
(* character that matters to URL syntax, quoting or JSON ("&", "=", "'",   *)
(* " ", ...) or a run of characters that do not ("limit", "t.datep").      *)
(* Python values are records [t, n, s, m]: t the type tag, n the integer   *)
(* payload, s the text payload, m the members of a dict or list.           *)
(***************************************************************************)
EXTENDS Integers, Sequences, FiniteSets, TLC

(* ----------------------------- Python values --------------------------- *)

NoMembers == [k \in {} |-> 0]

PyNone == [t |-> "none", n |-> 0, s |-> <<>>, m |-> NoMembers]

PyInt(n) == [t |-> "int", n |-> n, s |-> <<>>, m |-> NoMembers]

PyBool(b) == [t |-> "bool", n |-> IF b THEN 1 ELSE 0, s |-> <<>>, m |-> NoMembers]

PyFloat(n) == [t |-> "float", n |-> n, s |-> <<>>, m |-> NoMembers]

PyStr(s) == [t |-> "str", n |-> 0, s |-> s, m |-> NoMembers]

PyDict(m) == [t |-> "dict", n |-> 0, s |-> <<>>, m |-> m]

PyList(items) == [t |-> "list", n |-> Len(items), s |-> <<>>, m |-> items]

\* isinstance(v, int): bool is a subclass of int in Python.
IsInstanceInt(v) == v.t \in {"int", "bool"}

IsInstanceDict(v) == v.t = "dict"

\* Truthiness as tested by `if x:`.
Truthy(v) ==
    CASE v.t = "none" -> FALSE
      [] v.t \in {"int", "bool", "float"} -> v.n /= 0
      [] v.t = "str" -> v.s /= <<>>
      [] v.t = "dict" -> DOMAIN v.m /= {}
      [] v.t = "list" -> v.n /= 0

\* Decimal text of an integer, as str(int) and the f-string conversion give it.
IntText(n) == <<ToString(n)>>

\* The order in which the keys of a dict are written out.
KeyOrder ==
    <<"id", "ref", "track_id", "status", "error", "code", "message", "lastname",
      "firstname", "name", "socid", "label", "datep", "subject", "track",
      "userownerid", "userassigned", "percentage", "priority", "fulldayevent",
      "transparency", "mandatory", "answer_status", "event_id", "ticket_id">>

RECURSIVE JoinKeys(_, _, _)
\* The keys of dict members m that stand in KeyOrder from position i on,
\* appended to `written`.
JoinKeys(m, i, written) ==
    IF i > Len(KeyOrder) THEN written
    ELSE IF KeyOrder[i] \in DOMAIN m
         THEN JoinKeys(m, i + 1, Append(written, KeyOrder[i]))
         ELSE JoinKeys(m, i + 1, written)

RECURSIVE SetToSeq(_)
SetToSeq(S) ==
    IF S = {} THEN <<>>
    ELSE LET k == CHOOSE k \in S : TRUE IN <<k>> \o SetToSeq(S \ {k})

\* The keys of a dict in writing order: the known field names in KeyOrder, then
\* the computed keys.
Keys(m) ==
    JoinKeys(m, 1, <<>>)
    \o SetToSeq(DOMAIN m \ {KeyOrder[i] : i \in 1..Len(KeyOrder)})

RECURSIVE Flat(_)
\* The pieces of a text run together into one dict key.
Flat(s) == IF s = <<>> THEN "" ELSE s[1] \o Flat(Tail(s))

\* dict.get(key, default)
Get(m, key, default) == IF key \in DOMAIN m THEN m[key] ELSE default

\* The dict without one key (dict.pop).
Without(m, key) == [k \in DOMAIN m \ {key} |-> m[k]]

\* dict.setdefault(key, default)
SetDefault(m, key, default) == IF key \in DOMAIN m THEN m ELSE m @@ (key :> default)

RECURSIVE Repr(_)
RECURSIVE ReprItems(_, _, _)
\* repr(v): what str() gives for a value nested in a container.
Repr(v) ==
    CASE v.t = "none" -> <<"None">>
      [] v.t = "int" -> IntText(v.n)
      [] v.t = "bool" -> IF v.n = 1 THEN <<"True">> ELSE <<"False">>
      [] v.t = "float" -> IntText(v.n) \o <<".", "5">>
      [] v.t = "str" -> <<"'">> \o v.s \o <<"'">>
      [] v.t = "list" -> <<"[">> \o ReprItems(v.m, 1, FALSE) \o <<"]">>
      [] v.t = "dict" -> <<"{">> \o ReprItems(v.m, 1, TRUE) \o <<"}">>

ReprItems(m, i, isDict) ==
    LET ks == IF isDict THEN Keys(m) ELSE [j \in 1..Len(m) |-> j]
    IN  IF i > Len(ks) THEN <<>>
        ELSE (IF i > 1 THEN <<",", " ">> ELSE <<>>)
             \o (IF isDict THEN <<"'", ks[i], "'", ":", " ">> ELSE <<>>)
             \o Repr(m[ks[i]])
             \o ReprItems(m, i + 1, isDict)

\* str(v), also the conversion an f-string applies to {v}.
Str(v) == IF v.t = "str" THEN v.s ELSE Repr(v)

RECURSIVE Dumps(_)
RECURSIVE DumpsItems(_, _, _)
\* json.dumps(v, indent=2, ensure_ascii=False); the white space of the
\* indentation is left out.
Dumps(v) ==
    CASE v.t = "none" -> <<"null">>
      [] v.t = "int" -> IntText(v.n)
      [] v.t = "bool" -> IF v.n = 1 THEN <<"true">> ELSE <<"false">>
      [] v.t = "float" -> IntText(v.n) \o <<".", "5">>
      [] v.t = "str" -> <<"\"">> \o v.s \o <<"\"">>
      [] v.t = "list" -> <<"[">> \o DumpsItems(v.m, 1, FALSE) \o <<"]">>
      [] v.t = "dict" -> <<"{">> \o DumpsItems(v.m, 1, TRUE) \o <<"}">>

DumpsItems(m, i, isDict) ==
    LET ks == IF isDict THEN Keys(m) ELSE [j \in 1..Len(m) |-> j]
    IN  IF i > Len(ks) THEN <<>>
        ELSE (IF i > 1 THEN <<",">> ELSE <<>>)
             \o (IF isDict THEN <<"\"", ks[i], "\"", ":", " ">> ELSE <<>>)
             \o Dumps(m[ks[i]])
             \o DumpsItems(m, i + 1, isDict)

(* ------------------------------- Program state ------------------------- *)

VARIABLES
    config,     \* module-level configuration read from the environment (lines 21-25)
    phase,      \* "boot", "selfcheck", "serving" or "exited"
    startup,    \* the self-check of main: its request and what came back
    inv,        \* the tool invocations: slot -> invocation record
    history,    \* kinds of failure of the invocations that returned so far
    bp          \* the last direct call of the query builder: inputs and output

vars == <<config, phase, startup, inv, history, bp>>

(* --------------------------------- Results ------------------------------ *)

NoExc == [type |-> "", msg |-> <<>>]

\* A normal return of value v.
Ok(v) == [ok |-> TRUE, v |-> v, exc |-> NoExc]

\* An exception of the given type whose str() is msg.
Raise(type, msg) == [ok |-> FALSE, v |-> PyNone, exc |-> [type |-> type, msg |-> msg]]

(* --------------------------------- datetime ----------------------------- *)

DateTime(y, mo, d, h, mi, s) ==
    [year |-> y, month |-> mo, day |-> d, hour |-> h, minute |-> mi, second |-> s]

IsLeap(y) == y % 4 = 0 /\ (y % 100 /= 0 \/ y % 400 = 0)

DaysInMonth(y, mo) ==
    CASE mo \in {1, 3, 5, 7, 8, 10, 12} -> 31
      [] mo \in {4, 6, 9, 11} -> 30
      [] mo = 2 -> IF IsLeap(y) THEN 29 ELSE 28

DaysBeforeYear(y) ==
    (y - 1) * 365 + ((y - 1) \div 4) - ((y - 1) \div 100) + ((y - 1) \div 400)

RECURSIVE DaysBeforeMonth(_, _)
DaysBeforeMonth(y, mo) ==
    IF mo = 1 THEN 0 ELSE DaysBeforeMonth(y, mo - 1) + DaysInMonth(y, mo - 1)

\* date.toordinal(): day 1 is 0001-01-01.
ToOrdinal(dt) == DaysBeforeYear(dt.year) + DaysBeforeMonth(dt.year, dt.month) + dt.day

\* date.weekday(): Monday is 0, Sunday is 6.
Weekday(dt) == (ToOrdinal(dt) + 6) % 7

RECURSIVE YearOfOrdinal(_, _)
YearOfOrdinal(n, y) ==
    IF n > DaysBeforeYear(y + 1) THEN YearOfOrdinal(n, y + 1)
    ELSE IF n <= DaysBeforeYear(y) THEN YearOfOrdinal(n, y - 1)
    ELSE y

RECURSIVE MonthOfDay(_, _, _)
MonthOfDay(y, dayOfYear, mo) ==
    IF dayOfYear > DaysBeforeMonth(y, mo) + DaysInMonth(y, mo)
    THEN MonthOfDay(y, dayOfYear, mo + 1)
    ELSE mo

SecondOfDay(dt) == dt.hour * 3600 + dt.minute * 60 + dt.second

\* datetime + timedelta(days=days, seconds=seconds); seconds may be negative.
AddDelta(dt, days, seconds) ==
    LET total == SecondOfDay(dt) + seconds
        carry == total \div 86400
        sod == total - carry * 86400
        n == ToOrdinal(dt) + days + carry
        y == YearOfOrdinal(n, (n \div 366) + 1)
        doy == n - DaysBeforeYear(y)
        mo == MonthOfDay(y, doy, 1)
    IN  DateTime(y, mo, doy - DaysBeforeMonth(y, mo),
                 sod \div 3600, (sod % 3600) \div 60, sod % 60)

Pad2(n) == IF n < 10 THEN "0" \o ToString(n) ELSE ToString(n)

\* dt.strftime('%Y-%m-%d %H:%M:%S')
Strftime(dt) ==
    <<ToString(dt.year), "-", Pad2(dt.month), "-", Pad2(dt.day), " ",
      Pad2(dt.hour), ":", Pad2(dt.minute), ":", Pad2(dt.second)>>

(* ------------------------------ Query builder --------------------------- *)

LowerLetters ==
    <<"a", "b", "c", "d", "e", "f", "g", "h", "i", "j", "k", "l", "m",
      "n", "o", "p", "q", "r", "s", "t", "u", "v", "w", "x", "y", "z">>

UpperLetters ==
    <<"A", "B", "C", "D", "E", "F", "G", "H", "I", "J", "K", "L", "M",
      "N", "O", "P", "Q", "R", "S", "T", "U", "V", "W", "X", "Y", "Z">>

\* str.upper(), on text written one character per piece.
Upper(s) ==
    [i \in 1..Len(s) |->
        IF \E j \in 1..Len(LowerLetters) : LowerLetters[j] = s[i]
        THEN UpperLetters[CHOOSE j \in 1..Len(LowerLetters) : LowerLetters[j] = s[i]]
        ELSE s[i]]

\* The characters urllib.parse.quote replaces, with their replacement; every
\* other piece is a run of letters, digits and "_.-~/" and is kept.
QuoteTable ==
    (" " :> "%20") @@ ("'" :> "%27") @@ ("%" :> "%25") @@ ("(" :> "%28")
    @@ (")" :> "%29") @@ (":" :> "%3A") @@ (">" :> "%3E") @@ ("<" :> "%3C")
    @@ ("=" :> "%3D") @@ ("&" :> "%26") @@ ("?" :> "%3F") @@ ("#" :> "%23")
    @@ ("\"" :> "%22") @@ ("+" :> "%2B")

\* urllib.parse.quote(s)
Quote(s) ==
    [i \in 1..Len(s) |-> IF s[i] \in DOMAIN QuoteTable THEN QuoteTable[s[i]] ELSE s[i]]

RECURSIVE Join(_, _)
\* sep.join(parts)
Join(parts, sep) ==
    IF parts = <<>> THEN <<>>
    ELSE IF Len(parts) = 1 THEN parts[1]
    ELSE parts[1] \o sep \o Join(Tail(parts), sep)

ASC == <<"A", "S", "C">>

DESC == <<"D", "E", "S", "C">>

\* Mutant: the limit is emitted from 0 on.
limit_params_from_zero(limit) ==
    IF limit.n >= 0 THEN <<<<"limit", "=">> \o Str(limit)>> ELSE <<>>

\* _build_params, lines 62-64: the limit parameter, for a numeric limit.
limit_params(limit) ==
    IF limit.n > 0 THEN <<<<"limit", "=">> \o Str(limit)>> ELSE <<>>

\* Mutant: the sort order is compared as written, without upper().
sort_params_case_sensitive(sort_order, sort_field) ==
    IF sort_order.s \in {ASC, DESC}
    THEN <<<<"sortorder", "=">> \o sort_order.s,
           IF Truthy(sort_field)
           THEN <<"sortfield", "=">> \o Str(sort_field)
           ELSE <<"sortfield", "=", "t.datep">>>>
    ELSE <<>>

\* _build_params, lines 66-75: the sort parameters, for a text sort order.
sort_params(sort_order, sort_field) ==
    IF Upper(sort_order.s) \in {ASC, DESC}
    THEN <<<<"sortorder", "=">> \o Upper(sort_order.s),
           IF Truthy(sort_field)
           THEN <<"sortfield", "=">> \o Str(sort_field)
           ELSE <<"sortfield", "=", "t.datep">>>>
    ELSE <<>>

\* Mutant: the filter expression is appended as it is, without quote().
filter_params_unquoted(search_filters) ==
    IF Truthy(search_filters)
    THEN <<<<"sqlfilters", "=">> \o Str(search_filters)>>
    ELSE <<>>

\* _build_params, lines 77-82: the filter parameter.
filter_params(search_filters) ==
    IF Truthy(search_filters)
    THEN <<<<"sqlfilters", "=">> \o Quote(Str(search_filters))>>
    ELSE <<>>

\* DolibarrAPI._build_params
build_params(limit, sort_order, search_filters, sort_field) ==
    LET lim == IF limit.t = "none" THEN PyInt(config.DEFAULT_LIMIT) ELSE limit
        ord == IF sort_order.t = "none" THEN PyStr(config.DEFAULT_SORT_ORDER) ELSE sort_order
    IN  IF lim.t \notin {"int", "bool", "float"}
        THEN Raise("TypeError", <<"'>' not supported between instances of '",
                                  lim.t, "' and 'int'">>)
        ELSE IF ord.t /= "str"
        THEN Raise("AttributeError", <<"'", ord.t, "' object has no attribute 'upper'">>)
        ELSE
        LET params == limit_params(lim) \o sort_params(ord, sort_field)
                      \o filter_params(search_filters)
        IN  Ok(PyStr(IF params /= <<>> THEN <<"?">> \o Join(params, <<"&">>) ELSE <<>>))

(* ---------------------------- Request primitive ------------------------- *)

RECURSIVE RStrip(_)
\* s.rstrip('/')
RStrip(s) == IF s /= <<>> /\ s[Len(s)] = "/" THEN RStrip(SubSeq(s, 1, Len(s) - 1)) ELSE s

RECURSIVE LStrip(_)
\* s.lstrip('/')
LStrip(s) == IF s /= <<>> /\ s[1] = "/" THEN LStrip(Tail(s)) ELSE s

NoRequest == [method |-> "", url |-> <<>>, data |-> PyNone]

\* DolibarrAPI._make_request up to the awaited client call: the request that
\* goes out.  self.base_url is base_url.rstrip('/') (line 46).
make_request_send(method, endpoint, data) ==
    IF method \in {"GET", "POST", "PUT", "DELETE"}
    THEN Ok([method |-> method,
             url |-> RStrip(config.DOLIBARR_BASE_URL) \o <<"/">> \o LStrip(endpoint),
             data |-> data])
    ELSE Raise("ValueError", <<"Méthode HTTP non supportée: ", method>>)

\* What the transport hands back for one request.
NoOutcome == [kind |-> "none", status |-> 0, json |-> FALSE, body |-> PyNone]

TimeoutOutcome == [kind |-> "timeout", status |-> 0, json |-> FALSE, body |-> PyNone]

ConnectOutcome == [kind |-> "connect", status |-> 0, json |-> FALSE, body |-> PyNone]

\* An HTTP response; json says whether the body parses as JSON, to body.
HttpOutcome(status, json, body) ==
    [kind |-> "http", status |-> status, json |-> json, body |-> body]

ReasonPhrase(status) ==
    CASE status = 400 -> "Bad Request"
      [] status = 401 -> "Unauthorized"
      [] status = 404 -> "Not Found"
      [] status = 500 -> "Internal Server Error"
      [] OTHER -> ""

\* str() of the httpx.HTTPStatusError that response.raise_for_status() raises.
StatusErrorText(status, url) ==
    <<IF status >= 500 THEN "Server error" ELSE "Client error", " ", "'">>
    \o IntText(status) \o <<" ", ReasonPhrase(status), "'", " for url ", "'">> \o url
    \o <<"'", "\nFor more information check: ",
         "https://developer.mozilla.org/en-US/docs/Web/HTTP/Status/">>
    \o IntText(status)

\* The message lines 109-115 extract from an error body for the log:
\* error_data.get('error', {}).get('message', f'Erreur HTTP {status}').
\* Has(..) says whether the body carries the nested message.
HasErrorMessage(outcome) ==
    /\ outcome.kind = "http" /\ outcome.json
    /\ outcome.body.t = "dict"
    /\ "error" \in DOMAIN outcome.body.m
    /\ outcome.body.m["error"].t = "dict"
    /\ "message" \in DOMAIN outcome.body.m["error"].m

ErrorMessage(outcome) ==
    IF HasErrorMessage(outcome)
    THEN Str(outcome.body.m["error"].m["message"])
    ELSE <<"Erreur HTTP ">> \o IntText(outcome.status)

\* Mutant: a failed request is swallowed and an empty list returned.
make_request_result_swallowed(outcome, request) ==
    IF outcome.kind = "http" /\ outcome.status < 400 /\ outcome.json
    THEN Ok(outcome.body)
    ELSE Ok(PyList(<<>>))

\* DolibarrAPI._make_request from the completion of the awaited client call:
\* the parsed body, or the exception that leaves the method.
make_request_result(outcome, request) ==
    CASE outcome.kind = "timeout" -> Raise("ReadTimeout", <<>>)
      [] outcome.kind = "connect" ->
            Raise("ConnectError", <<"All connection attempts failed">>)
      [] outcome.kind = "http" ->
            IF outcome.status >= 400
            THEN Raise("HTTPStatusError", StatusErrorText(outcome.status, request.url))
            ELSE IF outcome.json
            THEN Ok(outcome.body)
            ELSE Raise("JSONDecodeError",
                       <<"Expecting value: line 1 column 1 (char 0)">>)

(* --------------------------- Resource operations ------------------------ *)
(* Each operation awaits _make_request once.  <op>(...) is the operation   *)
(* up to that await: the request it sends, or the exception raised before  *)
(* anything is sent.  The value it returns once the request has completed  *)
(* is op_return.                                                           *)

\* "(field:like:'%term%')"
LikeClause(field, term) ==
    <<"(", field, ":", "like", ":", "'", "%">> \o term \o <<"%", "'", ")">>

Or == <<" ", "OR", " ">>

And == <<" ", "AND", " ">>

\* "t.datep <op> 'YYYY-MM-DD HH:MM:SS'"
DateBound(op, dt) == <<"t.datep", " ">> \o op \o <<" ", "'">> \o Strftime(dt) \o <<"'">>

\* A list operation: build the query string, then GET endpoint + query.
list_request(endpoint, params) ==
    IF params.ok THEN make_request_send("GET", <<endpoint>> \o params.v.s, PyNone)
    ELSE params

\* Mutant: the contact search looks at the last name only.
search_contacts_lastname_only(search_term, limit, sort_order) ==
    LET search_filters ==
            IF Truthy(search_term)
            THEN PyStr(LikeClause("t.lastname", Str(search_term)))
            ELSE PyStr(<<>>)
    IN  list_request("contacts",
            build_params(limit, sort_order, search_filters, PyStr(<<"t.lastname">>)))

search_contacts(search_term, limit, sort_order) ==
    LET search_filters ==
            IF Truthy(search_term)
            THEN PyStr(LikeClause("t.lastname", Str(search_term)) \o Or
                       \o LikeClause("t.firstname", Str(search_term)) \o Or
                       \o LikeClause("t.email", Str(search_term)))
            ELSE PyStr(<<>>)
    IN  list_request("contacts",
            build_params(limit, sort_order, search_filters, PyStr(<<"t.lastname">>)))

get_companies(search_term, limit, sort_order) ==
    LET search_filters ==
            IF Truthy(search_term)
            THEN PyStr(LikeClause("t.name", Str(search_term)))
            ELSE PyStr(<<>>)
    IN  list_request("thirdparties",
            build_params(limit, sort_order, search_filters, PyStr(<<"t.name">>)))

get_proposals(limit, sort_order) ==
    LET lim == IF limit.t = "none" THEN PyInt(config.DEFAULT_LIMIT) ELSE limit
        ord == IF sort_order.t = "none" THEN PyStr(config.DEFAULT_SORT_ORDER) ELSE sort_order
    IN  list_request("proposals", build_params(lim, ord, PyStr(<<>>), PyStr(<<"t.datec">>)))

get_tickets(limit, sort_order) ==
    LET lim == IF limit.t = "none" THEN PyInt(config.DEFAULT_LIMIT) ELSE limit
        ord == IF sort_order.t = "none" THEN PyStr(config.DEFAULT_SORT_ORDER) ELSE sort_order
    IN  list_request("tickets", build_params(lim, ord, PyStr(<<>>), PyStr(<<"t.datec">>)))

\* "t.datep >= '<start>' AND t.datep <= '<end>'"
DateRange(start, end) ==
    DateBound(<<">", "=">>, start) \o And \o DateBound(<<"<", "=">>, end)

\* Mutant: the day ends at the midnight that starts the next one.
today_filter_to_midnight(now) ==
    LET today_start == [now EXCEPT !.hour = 0, !.minute = 0, !.second = 0]
    IN  DateRange(today_start, AddDelta(today_start, 1, 0))

\* Lines 213-216: the filter of filter_type "today".
today_filter(now) ==
    LET today_start == [now EXCEPT !.hour = 0, !.minute = 0, !.second = 0]
        today_end == [now EXCEPT !.hour = 23, !.minute = 59, !.second = 59]
    IN  DateRange(today_start, today_end)

\* Mutant: the week starts on the Sunday, as with isoweekday() % 7.
this_week_filter_from_sunday(now) ==
    LET back == AddDelta(now, -((Weekday(now) + 1) % 7), 0)
        week_start == [back EXCEPT !.hour = 0, !.minute = 0, !.second = 0]
        week_end == AddDelta(week_start, 6, 23 * 3600 + 59 * 60 + 59)
    IN  DateRange(week_start, week_end)

\* Lines 217-221: the filter of filter_type "this_week".
this_week_filter(now) ==
    LET back == AddDelta(now, -Weekday(now), 0)
        week_start == [back EXCEPT !.hour = 0, !.minute = 0, !.second = 0]
        week_end == AddDelta(week_start, 6, 23 * 3600 + 59 * 60 + 59)
    IN  DateRange(week_start, week_end)

\* Mutant: the month ends 30 days after its first day.
this_month_filter_thirty_days(now) ==
    LET month_start == [now EXCEPT !.day = 1, !.hour = 0, !.minute = 0, !.second = 0]
    IN  DateRange(month_start, AddDelta(month_start, 30, -1))

\* Lines 222-228: the filter of filter_type "this_month".
this_month_filter(now) ==
    LET month_start == [now EXCEPT !.day = 1, !.hour = 0, !.minute = 0, !.second = 0]
        next_start ==
            IF now.month = 12
            THEN [now EXCEPT !.year = now.year + 1, !.month = 1, !.day = 1,
                             !.hour = 0, !.minute = 0, !.second = 0]
            ELSE [now EXCEPT !.month = now.month + 1, !.day = 1,
                             !.hour = 0, !.minute = 0, !.second = 0]
        month_end == AddDelta(next_start, 0, -1)
    IN  DateRange(month_start, month_end)

\* Mutant: "future" leaves out the current instant itself.
agenda_filter_future_strict(filter_type, now) ==
    IF ~Truthy(filter_type) THEN <<>>
    ELSE CASE filter_type = PyStr(<<"future">>) -> DateBound(<<">">>, now)
           [] filter_type = PyStr(<<"past">>) -> DateBound(<<"<">>, now)
           [] filter_type = PyStr(<<"today">>) -> today_filter(now)
           [] filter_type = PyStr(<<"this_week">>) -> this_week_filter(now)
           [] filter_type = PyStr(<<"this_month">>) -> this_month_filter(now)
           [] OTHER -> <<>>

\* The time-window filter of get_agenda_events (lines 204-228).
agenda_filter(filter_type, now) ==
    IF ~Truthy(filter_type) THEN <<>>
    ELSE CASE filter_type = PyStr(<<"future">>) -> DateBound(<<">", "=">>, now)
           [] filter_type = PyStr(<<"past">>) -> DateBound(<<"<">>, now)
           [] filter_type = PyStr(<<"today">>) -> today_filter(now)
           [] filter_type = PyStr(<<"this_week">>) -> this_week_filter(now)
           [] filter_type = PyStr(<<"this_month">>) -> this_month_filter(now)
           [] OTHER -> <<>>

\* Mutant: the agenda list sorts on the creation date, like proposals and tickets.
get_agenda_events_by_datec(limit, sort_order, filter_type, now) ==
    LET lim == IF limit.t = "none" THEN PyInt(config.DEFAULT_AGENDA_LIMIT) ELSE limit
        ord == IF sort_order.t = "none" THEN PyStr(config.DEFAULT_SORT_ORDER) ELSE sort_order
    IN  list_request("agendaevents",
            build_params(lim, ord, PyStr(agenda_filter(filter_type, now)),
                         PyStr(<<"t.datec">>)))

get_agenda_events(limit, sort_order, filter_type, now) ==
    LET lim == IF limit.t = "none" THEN PyInt(config.DEFAULT_AGENDA_LIMIT) ELSE limit
        ord == IF sort_order.t = "none" THEN PyStr(config.DEFAULT_SORT_ORDER) ELSE sort_order
    IN  list_request("agendaevents",
            build_params(lim, ord, PyStr(agenda_filter(filter_type, now)),
                         PyStr(<<"t.datep">>)))

\* Mutant: the upcoming events are listed in the configured default order.
get_upcoming_events_default_order(limit, days_ahead, now) ==
    LET future_date == AddDelta(now, days_ahead.n, 0)
    IN  list_request("agendaevents",
            build_params(limit, PyNone, PyStr(DateRange(now, future_date)),
                         PyStr(<<"t.datep">>)))

get_upcoming_events(limit, days_ahead, now) ==
    IF days_ahead.t \notin {"int", "bool"}
    THEN Raise("TypeError", <<"unsupported type for timedelta days component: ",
                              days_ahead.t>>)
    ELSE
    LET future_date == AddDelta(now, days_ahead.n, 0)
        search_filters ==
            DateBound(<<">", "=">>, now) \o And \o DateBound(<<"<", "=">>, future_date)
    IN  list_request("agendaevents",
            build_params(limit, PyStr(ASC), PyStr(search_filters),
                         PyStr(<<"t.datep">>)))

create_contact(contact_data) == make_request_send("POST", <<"contacts">>, contact_data)

create_company(company_data) == make_request_send("POST", <<"thirdparties">>, company_data)

create_proposal(proposal_data) == make_request_send("POST", <<"proposals">>, proposal_data)

create_ticket(ticket_data) == make_request_send("POST", <<"tickets">>, ticket_data)

\* The fallback owner of create_agenda_event (line 248).
DefaultOwnerId == 5

\* dict[key] = default when dict.get(key) is falsy.
SetIfFalsy(m, key, default) ==
    IF key \in DOMAIN m /\ Truthy(m[key]) THEN m
    ELSE [k \in DOMAIN m \cup {key} |-> IF k = key THEN default ELSE m[k]]

\* Mutant: a key whose value is falsy is filled in like a missing one.
agenda_event_defaults_if_falsy(event_data) ==
    LET m1 == SetIfFalsy(event_data.m, "userownerid", PyInt(DefaultOwnerId))
        user_id == Str(m1["userownerid"])
        assigned ==
            PyDict(Flat(user_id) :>
                PyDict([id |-> PyStr(user_id), mandatory |-> PyStr(<<"0">>),
                        answer_status |-> PyStr(<<"0">>),
                        transparency |-> PyStr(<<"0">>)]))
        m2 == SetIfFalsy(m1, "userassigned", assigned)
        m3 == SetIfFalsy(m2, "percentage", PyInt(-1))
        m4 == SetIfFalsy(m3, "priority", PyInt(0))
        m5 == SetIfFalsy(m4, "fulldayevent", PyInt(0))
    IN  PyDict(SetIfFalsy(m5, "transparency", PyInt(0)))

\* event_data as create_agenda_event fills it in before posting (lines 247-266).
agenda_event_defaults(event_data) ==
    LET m1 == SetDefault(event_data.m, "userownerid", PyInt(DefaultOwnerId))
        user_id == Str(m1["userownerid"])
        assigned ==
            PyDict(Flat(user_id) :>
                PyDict([id |-> PyStr(user_id), mandatory |-> PyStr(<<"0">>),
                        answer_status |-> PyStr(<<"0">>),
                        transparency |-> PyStr(<<"0">>)]))
        m2 == SetDefault(m1, "userassigned", assigned)
        m3 == SetDefault(m2, "percentage", PyInt(-1))
        m4 == SetDefault(m3, "priority", PyInt(0))
        m5 == SetDefault(m4, "fulldayevent", PyInt(0))
    IN  PyDict(SetDefault(m5, "transparency", PyInt(0)))

create_agenda_event(event_data) ==
    make_request_send("POST", <<"agendaevents">>, agenda_event_defaults(event_data))

get_agenda_event(event_id) ==
    make_request_send("GET", <<"agendaevents", "/">> \o Str(event_id), PyNone)

update_agenda_event(event_id, event_data) ==
    make_request_send("PUT", <<"agendaevents", "/">> \o Str(event_id), event_data)

delete_agenda_event(event_id) ==
    make_request_send("DELETE", <<"agendaevents", "/">> \o Str(event_id), PyNone)

get_ticket(ticket_id) ==
    make_request_send("GET", <<"tickets", "/">> \o Str(ticket_id), PyNone)

get_ticket_by_ref(ref) ==
    make_request_send("GET", <<"tickets", "/", "ref", "/">> \o Str(ref), PyNone)

get_ticket_by_track_id(track_id) ==
    make_request_send("GET", <<"tickets", "/", "track_id", "/">> \o Str(track_id), PyNone)

update_ticket(ticket_id, ticket_data) ==
    make_request_send("PUT", <<"tickets", "/">> \o Str(ticket_id), ticket_data)

add_ticket_message(message_data) ==
    make_request_send("POST", <<"tickets", "/", "newmessage">>, message_data)

delete_ticket(ticket_id) ==
    make_request_send("DELETE", <<"tickets", "/">> \o Str(ticket_id), PyNone)

\* What the five create operations return for the parsed response `result`
\* (lines 142-147, and the same lines in create_company, create_proposal,
\* create_agenda_event and create_ticket).
created_result(result) ==
    IF IsInstanceInt(result)
    THEN PyDict([id |-> result, status |-> PyStr(<<"created">>)])
    ELSE IF IsInstanceDict(result)
    THEN result
    ELSE PyDict([id |-> PyStr(Str(result)), status |-> PyStr(<<"created">>)])

CreateTools ==
    {"create_contact", "create_company", "create_proposal", "create_agenda_event",
     "create_ticket"}

\* The value the operation behind tool `name` returns for the parsed response.
op_return(name, result) == IF name \in CreateTools THEN created_result(result) ELSE result

(* ------------------------------ Tool dispatcher ------------------------- *)

ListTools ==
    {"search_contacts", "get_companies", "get_proposals", "get_agenda_events",
     "get_upcoming_events", "get_tickets"}

GetTools ==
    {"get_agenda_event", "get_ticket", "get_ticket_by_ref", "get_ticket_by_track_id"}

UpdateTools == {"update_agenda_event", "update_ticket"}

DeleteTools == {"delete_agenda_event", "delete_ticket"}

\* The names the if/elif chain of handle_call_tool matches.
DispatchedTools ==
    ListTools \cup CreateTools \cup GetTools \cup UpdateTools \cup DeleteTools
    \cup {"add_ticket_message"}

\* str(KeyError(key)), raised by arguments.pop(key) on a missing key.
KeyErrorText(key) == <<"'", key, "'">>

\* Mutant: a name that is not matched is taken for an endpoint to read.
unknown_tool_as_endpoint(name) == make_request_send("GET", <<name>>, PyNone)

\* The else branch of handle_call_tool (lines 903-904).
unknown_tool(name) == Raise("ValueError", <<"Outil inconnu: ", name>>)

\* handle_call_tool from its entry to the await of the operation: the request
\* the operation sends, or the exception raised before anything is sent.
\* a is the arguments dict; now is what datetime.now() returns if it is read.
tool_request(name, a, now) ==
    CASE name = "search_contacts" ->
            search_contacts(Get(a, "search_term", PyStr(<<>>)),
                            Get(a, "limit", PyInt(config.DEFAULT_LIMIT)),
                            Get(a, "sort_order", PyStr(config.DEFAULT_SORT_ORDER)))
      [] name = "create_contact" -> create_contact(PyDict(a))
      [] name = "get_companies" ->
            get_companies(Get(a, "search_term", PyStr(<<>>)),
                          Get(a, "limit", PyInt(config.DEFAULT_LIMIT)),
                          Get(a, "sort_order", PyStr(config.DEFAULT_SORT_ORDER)))
      [] name = "create_company" -> create_company(PyDict(a))
      [] name = "get_proposals" ->
            get_proposals(Get(a, "limit", PyInt(config.DEFAULT_LIMIT)),
                          Get(a, "sort_order", PyStr(config.DEFAULT_SORT_ORDER)))
      [] name = "create_proposal" -> create_proposal(PyDict(a))
      [] name = "get_agenda_events" ->
            get_agenda_events(Get(a, "limit", PyInt(config.DEFAULT_AGENDA_LIMIT)),
                              Get(a, "sort_order", PyStr(config.DEFAULT_SORT_ORDER)),
                              Get(a, "filter_type", PyNone), now)
      [] name = "get_upcoming_events" ->
            get_upcoming_events(Get(a, "limit", PyInt(50)),
                                Get(a, "days_ahead", PyInt(30)), now)
      [] name = "create_agenda_event" -> create_agenda_event(PyDict(a))
      [] name = "get_agenda_event" -> get_agenda_event(Get(a, "event_id", PyNone))
      [] name = "update_agenda_event" ->
            IF "event_id" \in DOMAIN a
            THEN update_agenda_event(a["event_id"], PyDict(Without(a, "event_id")))
            ELSE Raise("KeyError", KeyErrorText("event_id"))
      [] name = "delete_agenda_event" -> delete_agenda_event(Get(a, "event_id", PyNone))
      [] name = "get_tickets" ->
            get_tickets(Get(a, "limit", PyInt(config.DEFAULT_LIMIT)),
                        Get(a, "sort_order", PyStr(config.DEFAULT_SORT_ORDER)))
      [] name = "create_ticket" -> create_ticket(PyDict(a))
      [] name = "get_ticket" -> get_ticket(Get(a, "ticket_id", PyNone))
      [] name = "get_ticket_by_ref" -> get_ticket_by_ref(Get(a, "ref", PyNone))
      [] name = "get_ticket_by_track_id" ->
            get_ticket_by_track_id(Get(a, "track_id", PyNone))
      [] name = "update_ticket" ->
            IF "ticket_id" \in DOMAIN a
            THEN update_ticket(a["ticket_id"], PyDict(Without(a, "ticket_id")))
            ELSE Raise("KeyError", KeyErrorText("ticket_id"))
      [] name = "add_ticket_message" -> add_ticket_message(PyDict(a))
      [] name = "delete_ticket" -> delete_ticket(Get(a, "ticket_id", PyNone))
      [] OTHER -> unknown_tool(name)

\* result.get(key, 'N/A') if isinstance(result, dict) else <otherwise>
FieldOr(result, key, otherwise) ==
    IF IsInstanceDict(result) THEN Get(result.m, key, PyStr(<<"N/A">>)) ELSE otherwise

\* handle_call_tool after the await: the text of the TextContent it returns
\* for the value `result` of the operation.
tool_text(name, a, result) ==
    CASE name \in ListTools \cup GetTools -> Dumps(result)
      [] name = "create_contact" ->
            <<"Contact créé avec succès. ID: ">> \o Str(FieldOr(result, "id", result))
      [] name = "create_company" ->
            <<"Entreprise créée avec succès. ID: ">> \o Str(FieldOr(result, "id", result))
      [] name = "create_proposal" ->
            <<"Proposition créée avec succès. ID: ">> \o Str(FieldOr(result, "id", result))
      [] name = "create_agenda_event" ->
            <<"Événement d'agenda créé avec succès. ID: ">>
            \o Str(FieldOr(result, "id", result))
      [] name = "update_agenda_event" ->
            <<"Événement d'agenda mis à jour avec succès. ID: ">> \o Str(a["event_id"])
      [] name = "delete_agenda_event" ->
            <<"Événement d'agenda supprimé avec succès. ID: ">>
            \o Str(Get(a, "event_id", PyNone))
      [] name = "create_ticket" ->
            <<"Ticket créé avec succès. ID: ">> \o Str(FieldOr(result, "id", result))
            \o <<", Référence: ">> \o Str(FieldOr(result, "ref", PyStr(<<"N/A">>)))
            \o <<", Track ID: ">> \o Str(FieldOr(result, "track_id", PyStr(<<"N/A">>)))
      [] name = "update_ticket" ->
            <<"Ticket mis à jour avec succès. ID: ">> \o Str(a["ticket_id"])
      [] name = "add_ticket_message" -> <<"Message ajouté au ticket avec succès.">>
      [] name = "delete_ticket" ->
            <<"Ticket supprimé avec succès. ID: ">> \o Str(Get(a, "ticket_id", PyNone))

\* Mutant: the exception is logged and raised again.
except_exception_reraised(exc) == [text |-> <<>>, escaped |-> TRUE, returned |-> PyNone]

\* The except clause of handle_call_tool (lines 906-911): the exception becomes
\* a text result and does not leave the handler.
except_exception(exc) ==
    [text |-> <<"Erreur: ">> \o exc.msg, escaped |-> FALSE, returned |-> PyNone]

\* What handle_call_tool returns: r is Ok(parsed response) of the awaited
\* request, or the exception raised in the try block.
handle_call_tool_return(name, a, r) ==
    IF r.ok
    THEN [text |-> tool_text(name, a, op_return(name, r.v)), escaped |-> FALSE,
          returned |-> op_return(name, r.v)]
    ELSE except_exception(r.exc)

\* The names of the tools handle_list_tools returns, in its order.
CatalogTools ==
    <<"search_contacts", "create_contact", "get_companies", "create_company",
      "get_proposals", "create_proposal", "get_agenda_events", "get_upcoming_events",
      "create_agenda_event", "get_agenda_event", "update_agenda_event",
      "delete_agenda_event", "get_tickets", "create_ticket", "get_ticket",
      "get_ticket_by_ref", "get_ticket_by_track_id", "update_ticket",
      "add_ticket_message", "delete_ticket">>

\* Mutant: the agenda list declares the general default limit.
CatalogDefaultsAgendaAsOthers(name) ==
    CASE name \in {"search_contacts", "get_companies", "get_proposals", "get_tickets",
                   "get_agenda_events"} ->
            [limit |-> PyInt(config.DEFAULT_LIMIT),
             sort_order |-> PyStr(config.DEFAULT_SORT_ORDER)]
      [] name = "get_upcoming_events" -> [limit |-> PyInt(50), days_ahead |-> PyInt(30)]
      [] OTHER -> NoMembers

\* The "default" entries of the inputSchema of each tool of the catalog.
CatalogDefaults(name) ==
    CASE name \in {"search_contacts", "get_companies", "get_proposals", "get_tickets"} ->
            [limit |-> PyInt(config.DEFAULT_LIMIT),
             sort_order |-> PyStr(config.DEFAULT_SORT_ORDER)]
      [] name = "get_agenda_events" ->
            [limit |-> PyInt(config.DEFAULT_AGENDA_LIMIT),
             sort_order |-> PyStr(config.DEFAULT_SORT_ORDER)]
      [] name = "get_upcoming_events" -> [limit |-> PyInt(50), days_ahead |-> PyInt(30)]
      [] OTHER -> NoMembers

\* The "required" lists of the tool catalog (handle_list_tools).
RequiredArguments(name) ==
    CASE name = "create_contact" -> {"lastname"}
      [] name = "create_company" -> {"name"}
      [] name = "create_proposal" -> {"socid"}
      [] name = "create_agenda_event" -> {"label", "datep"}
      [] name \in {"get_agenda_event", "update_agenda_event", "delete_agenda_event"} ->
            {"event_id"}
      [] name = "create_ticket" -> {"subject", "message"}
      [] name \in {"get_ticket", "update_ticket", "delete_ticket"} -> {"ticket_id"}
      [] name = "get_ticket_by_ref" -> {"ref"}
      [] name = "get_ticket_by_track_id" -> {"track_id"}
      [] name = "add_ticket_message" -> {"track_id", "message"}
      [] OTHER -> {}

(* ------------------------------- Environment ---------------------------- *)

\* Largest explicit limit argument tried.
MaxLimit == 2

\* Values of the environment variables of lines 21-25.
Configs ==
    [DOLIBARR_BASE_URL : {<<>>, <<"https:", "/", "/", "crm.example", "/", "api", "/">>},
     DOLIBARR_API_KEY : {<<>>, <<"k3y">>},
     DEFAULT_LIMIT : {0, 100},
     DEFAULT_SORT_ORDER : {DESC, <<"n", "o", "n", "e">>},
     DEFAULT_AGENDA_LIMIT : {20}]

\* Instants datetime.now() may return.
Instants == {DateTime(2024, 12, 31, 10, 30, 15), DateTime(2023, 2, 27, 23, 59, 59)}

NoInstant == DateTime(0, 0, 0, 0, 0, 0)

ClockTools == {"get_agenda_events", "get_upcoming_events"}

Opt(key, values) == {NoMembers} \cup {key :> v : v \in values}

LimitArgs ==
    Opt("limit", {PyInt(n) : n \in 0..MaxLimit} \cup {PyStr(<<"many">>)})

SortArgs ==
    Opt("sort_order", {PyStr(<<"a", "s", "c">>), PyStr(DESC), PyStr(<<"u", "p">>)})

SearchArgs == Opt("search_term", {PyStr(<<>>), PyStr(<<"o", "'", "&", "x">>)})

FilterArgs ==
    Opt("filter_type", {PyStr(<<"future">>), PyStr(<<"past">>), PyStr(<<"today">>),
                        PyStr(<<"this_week">>), PyStr(<<"this_month">>)})

DaysArgs == Opt("days_ahead", {PyInt(0), PyInt(7)})

IdArgs(key) == Opt(key, {PyStr(<<"7">>)})

\* priority, fulldayevent and transparency of an agenda event: none given,
\* one given with a falsy value, or all three.
AgendaFlagArgs ==
    {NoMembers, "priority" :> PyNone, "fulldayevent" :> PyStr(<<>>),
     "transparency" :> PyStr(<<>>),
     [priority |-> PyNone, fulldayevent |-> PyStr(<<>>), transparency |-> PyStr(<<>>)]}

\* The arguments a caller may pass to each tool.
ArgumentsOf(name) ==
    CASE name \in {"search_contacts", "get_companies"} ->
            {x @@ y @@ z : x \in SearchArgs, y \in LimitArgs, z \in SortArgs}
      [] name \in {"get_proposals", "get_tickets"} ->
            {y @@ z : y \in LimitArgs, z \in SortArgs}
      [] name = "get_agenda_events" ->
            {x @@ y @@ z : x \in FilterArgs, y \in LimitArgs, z \in SortArgs}
      [] name = "get_upcoming_events" -> {x @@ y : x \in DaysArgs, y \in LimitArgs}
      [] name = "create_contact" ->
            Opt("lastname", {PyStr(<<"Durand">>)})
      [] name = "create_company" -> Opt("name", {PyStr(<<"Acme">>)})
      [] name = "create_proposal" -> Opt("socid", {PyInt(3)})
      [] name = "create_ticket" ->
            {x @@ y : x \in Opt("subject", {PyStr(<<"Panne">>)}),
                      y \in Opt("message", {PyStr(<<"Aide">>)})}
      [] name = "create_agenda_event" ->
            {x @@ y @@ z @@ u @@ v @@ w :
                x \in Opt("label", {PyStr(<<"Appel">>)}),
                y \in Opt("datep", {PyStr(<<"2025-01-06">>)}),
                z \in Opt("userownerid", {PyInt(0), PyInt(9)}),
                u \in Opt("userassigned", {PyDict(NoMembers)}),
                v \in Opt("percentage", {PyInt(0)}),
                w \in AgendaFlagArgs}
      [] name \in {"get_agenda_event", "delete_agenda_event"} -> IdArgs("event_id")
      [] name = "update_agenda_event" ->
            {x @@ y : x \in IdArgs("event_id"), y \in Opt("label", {PyStr(<<"Appel">>)})}
      [] name \in {"get_ticket", "delete_ticket"} -> IdArgs("ticket_id")
      [] name = "update_ticket" ->
            {x @@ y : x \in IdArgs("ticket_id"), y \in Opt("priority", {PyInt(2)})}
      [] name = "get_ticket_by_ref" -> IdArgs("ref")
      [] name = "get_ticket_by_track_id" -> IdArgs("track_id")
      [] name = "add_ticket_message" ->
            {x @@ y : x \in IdArgs("track_id"), y \in Opt("message", {PyStr(<<"Aide">>)})}
      [] OTHER -> {NoMembers}

\* Tool names a caller may send: the dispatched ones and two that are not.
ToolNames == DispatchedTools \cup {"get_invoices", ""}

\* The error body the remote API sends with status st.
ErrorBody(st) ==
    PyDict([error |-> PyDict([code |-> PyInt(st),
                              message |-> PyStr(<<"Not Found: record missing">>)])])

\* Parsed bodies a response may carry.
Bodies ==
    {PyInt(42), PyBool(TRUE), PyFloat(42), PyStr(<<"42">>), PyNone, PyList(<<>>),
     PyList(<<PyDict([id |-> PyStr(<<"42">>)])>>),
     PyDict([id |-> PyStr(<<"42">>), ref |-> PyStr(<<"TK001">>)]),
     PyDict(NoMembers)}

\* What may come back for one request.
Outcomes ==
    {TimeoutOutcome, ConnectOutcome}
    \cup {HttpOutcome(200, TRUE, b) : b \in Bodies}
    \cup {HttpOutcome(st, FALSE, PyNone) : st \in {200, 404, 500}}
    \cup {HttpOutcome(st, TRUE, ErrorBody(st)) : st \in {400, 404, 500}}
    \cup {HttpOutcome(404, TRUE, PyDict(NoMembers))}

(* -------------------------------- Behaviour ----------------------------- *)

Slots == {"a"}

IdleInvocation ==
    [pc |-> "idle", name |-> "", arguments |-> NoMembers, now |-> NoInstant,
     request |-> NoRequest, nreq |-> 0, outcome |-> NoOutcome,
     returned |-> PyNone, text |-> <<>>, escaped |-> FALSE]

\* What main keeps of the answer to its connection test: whether it came, with
\* which status and whether it parsed; main does not use the body.
Seen(o) == [kind |-> o.kind, status |-> o.status, json |-> o.json]

NoStartup == [request |-> NoRequest, done |-> FALSE, outcome |-> Seen(NoOutcome)]

NoBuild ==
    [called |-> FALSE, resource |-> "", limit |-> PyNone, sort_order |-> PyNone,
     search_filters |-> PyStr(<<>>), sort_field |-> PyNone, out |-> Ok(PyNone)]

\* The resources whose list operations call the query builder.
Resources == {"contacts", "thirdparties", "proposals", "agendaevents", "tickets"}

\* Inputs of direct calls of the query builder.
BuildLimits == {PyNone} \cup {PyInt(n) : n \in 0..MaxLimit}

BuildSortOrders ==
    {PyNone, PyStr(ASC), PyStr(DESC), PyStr(<<"a", "s", "c">>), PyStr(<<"D", "e", "s", "c">>),
     PyStr(<<"a", "s", "c", "e", "n", "d", "i", "n", "g">>), PyStr(<<>>),
     PyStr(<<"A", "S">>)}

BuildFilters ==
    {PyStr(<<>>), PyStr(LikeClause("t.name", <<"o", "'", "&", "limit", "=", "9">>)),
     PyStr(<<"t.ref", " ", "=", " ", "\"", "a", "?", "b", "#", "c", "/", "d", "+", "%",
             "&", "sqlfilters", "=", "x", "\"">>)}

BuildSortFields == {PyNone, PyStr(<<>>), PyStr(<<"t.name">>), PyStr(<<"t.datep">>)}

Init ==
    /\ config \in Configs
    /\ phase = "boot"
    /\ startup = NoStartup
    /\ inv = [s \in Slots |-> IdleInvocation]
    /\ history = {}
    /\ bp = NoBuild

\* Lines 28-34: the module exits when the API key or the base URL is empty.
CheckConfiguration ==
    /\ phase = "boot"
    /\ phase' = IF config.DOLIBARR_API_KEY = <<>> \/ config.DOLIBARR_BASE_URL = <<>>
                THEN "exited" ELSE "main"
    /\ UNCHANGED <<config, startup, inv, history, bp>>

\* main, lines 918-920: the connection test, a contact search of one record.
SelfCheckSend ==
    /\ phase = "main"
    /\ LET r == search_contacts(PyStr(<<>>), PyInt(1), PyNone)
       IN  /\ startup' = [startup EXCEPT !.request = IF r.ok THEN r.v ELSE NoRequest]
           /\ phase' = IF r.ok THEN "selfcheck" ELSE "exited"
    /\ UNCHANGED <<config, inv, history, bp>>

\* Mutant: a failed connection test is logged and the server started all the same.
SelfCheckDoneLenient ==
    /\ phase = "selfcheck"
    /\ \E o \in Outcomes :
        /\ startup' = [startup EXCEPT !.done = TRUE, !.outcome = Seen(o)]
        /\ phase' = "serving"
    /\ UNCHANGED <<config, inv, history, bp>>

\* main, lines 921-925: serve when the test returned, exit when it raised.
SelfCheckDone ==
    /\ phase = "selfcheck"
    /\ \E o \in Outcomes :
        /\ startup' = [startup EXCEPT !.done = TRUE, !.outcome = Seen(o)]
        /\ phase' = IF make_request_result(o, startup.request).ok
                    THEN "serving" ELSE "exited"
    /\ UNCHANGED <<config, inv, history, bp>>

\* handle_call_tool(name, a) entered in slot s at instant now: it runs up to its
\* await, or to its return when it raises before sending anything.
Invoke(s, name, a, now) ==
    LET r == tool_request(name, a, now)
        ret == handle_call_tool_return(name, a, r)
    IN  /\ inv' = [inv EXCEPT ![s] =
                [pc |-> IF r.ok THEN "awaiting" ELSE "done",
                 name |-> name, arguments |-> a, now |-> now,
                 request |-> IF r.ok THEN r.v ELSE NoRequest,
                 nreq |-> IF r.ok THEN 1 ELSE 0,
                 outcome |-> NoOutcome, returned |-> PyNone,
                 text |-> IF r.ok THEN <<>> ELSE ret.text,
                 escaped |-> IF r.ok THEN FALSE ELSE ret.escaped]]
        /\ UNCHANGED <<config, phase, startup, history, bp>>

\* A tool call arrives.
Call(s) ==
    /\ phase = "serving"
    /\ inv[s].pc = "idle"
    /\ \E name \in ToolNames :
       \E a \in ArgumentsOf(name) :
       \E now \in IF name \in ClockTools THEN Instants ELSE {NoInstant} :
        Invoke(s, name, a, now)

\* Mutant: a request that timed out is sent again, once.
RespondRetrying(s) ==
    /\ inv[s].pc = "awaiting"
    /\ \E o \in Outcomes :
        LET ret == handle_call_tool_return(inv[s].name, inv[s].arguments,
                                           make_request_result(o, inv[s].request))
        IN  inv' = IF o.kind = "timeout" /\ inv[s].nreq < 2
                   THEN [inv EXCEPT ![s].nreq = inv[s].nreq + 1]
                   ELSE [inv EXCEPT ![s].pc = "done", ![s].outcome = o,
                                    ![s].returned = ret.returned,
                                    ![s].text = ret.text, ![s].escaped = ret.escaped]
    /\ UNCHANGED <<config, phase, startup, history, bp>>

\* Mutant: the name and arguments of the call being served are kept in one
\* place for all invocations, so that the result is written from those of
\* another invocation in progress.
CompleteFromSharedCall(s, o) ==
    LET others == {t \in DOMAIN inv : t /= s /\ inv[t].pc /= "idle"
                                      /\ inv[t].name \in DispatchedTools
                                      /\ inv[t].name \notin UpdateTools}
        t == IF others = {} THEN s ELSE CHOOSE t \in others : TRUE
        ret == handle_call_tool_return(inv[t].name, inv[t].arguments,
                                       make_request_result(o, inv[s].request))
    IN  /\ inv' = [inv EXCEPT ![s].pc = "done", ![s].outcome = o,
                                ![s].returned = ret.returned,
                                ![s].text = ret.text, ![s].escaped = ret.escaped]
        /\ UNCHANGED <<config, phase, startup, history, bp>>

\* The awaited request of invocation s completes with outcome o and the
\* handler runs to its return.
Complete(s, o) ==
    LET ret == handle_call_tool_return(inv[s].name, inv[s].arguments,
                                       make_request_result(o, inv[s].request))
    IN  /\ inv' = [inv EXCEPT ![s].pc = "done", ![s].outcome = o,
                                ![s].returned = ret.returned,
                                ![s].text = ret.text, ![s].escaped = ret.escaped]
        /\ UNCHANGED <<config, phase, startup, history, bp>>

\* The awaited request completes.
Respond(s) ==
    /\ inv[s].pc = "awaiting"
    /\ \E o \in Outcomes : Complete(s, o)

\* How an invocation that has returned went.
OutcomeKind(i) ==
    CASE i.nreq = 0 /\ i.name \notin DispatchedTools -> "unknown_tool"
      [] i.nreq = 0 /\ i.name \in DispatchedTools -> "bad_arguments"
      [] i.nreq > 0 /\ i.outcome.kind \in {"timeout", "connect"} -> "connectivity_error"
      [] i.nreq > 0 /\ i.outcome.kind = "http" /\ i.outcome.status >= 400 -> "remote_error"
      [] i.nreq > 0 /\ i.outcome.kind = "http" /\ i.outcome.status < 400
            /\ ~i.outcome.json -> "connectivity_error"
      [] OTHER -> "success"

\* The result goes back to the caller; an exception that left the handler
\* ends the serving of tool calls.
Return(s) ==
    /\ inv[s].pc = "done"
    /\ inv' = [inv EXCEPT ![s] = IdleInvocation]
    /\ history' = history \cup ({OutcomeKind(inv[s])} \ {"success"})
    /\ phase' = IF inv[s].escaped THEN "crashed" ELSE phase
    /\ UNCHANGED <<config, startup, bp>>

Next ==
    \/ CheckConfiguration
    \/ SelfCheckSend
    \/ SelfCheckDone
    \/ \E s \in Slots : Call(s)
    \/ \E s \in Slots : Respond(s)
    \/ \E s \in Slots : Return(s)

Spec == Init /\ [][Next]_vars

\* The query builder called on its own, with every combination of inputs, on
\* behalf of a list operation of `resource`.
BuildCall ==
    /\ ~bp.called
    /\ \E resource \in Resources, limit \in BuildLimits, sort_order \in BuildSortOrders,
       search_filters \in BuildFilters, sort_field \in BuildSortFields :
        bp' = [called |-> TRUE, resource |-> resource, limit |-> limit,
               sort_order |-> sort_order, search_filters |-> search_filters,
               sort_field |-> sort_field,
               out |-> build_params(limit, sort_order, search_filters, sort_field)]
    /\ UNCHANGED <<config, phase, startup, inv, history>>

\* The caller takes the query string; the builder keeps nothing.
BuildReturn ==
    /\ bp.called
    /\ bp' = NoBuild
    /\ UNCHANGED <<config, phase, startup, inv, history>>

NextBuild == BuildCall \/ BuildReturn

\* The builder runs in a process that has started: the configuration passed
\* the check of lines 28-34 and the connection test of main has returned.
InitBuild ==
    /\ config \in {c \in Configs : c.DOLIBARR_API_KEY /= <<>> /\ c.DOLIBARR_BASE_URL /= <<>>}
    /\ phase = "serving"
    /\ startup = [request |-> search_contacts(PyStr(<<>>), PyInt(1), PyNone).v, done |-> TRUE,
                  outcome |-> Seen(HttpOutcome(200, TRUE, PyList(<<>>)))]
    /\ inv = [s \in Slots |-> IdleInvocation]
    /\ history = {}
    /\ bp = NoBuild

SpecBuild == InitBuild /\ [][NextBuild]_vars

\* Calendar days on which the clock is read: the first, middle and last days of
\* months of 28, 29, 30 and 31 days, and the week from Monday 2024-12-30 to
\* Sunday 2025-01-05.
ClockDays ==
    {ymd \in ({2024} \X {1, 2, 4, 12} \cup {<<2023, 2>>}) \X {1, 15, 28, 29, 30, 31} :
        ymd[2] <= DaysInMonth(ymd[1][1], ymd[1][2])}
    \cup {<<<<2025, 1>>, d>> : d \in 1..5}

ClockTimes == {<<0, 0, 0>>, <<10, 30, 15>>, <<23, 59, 59>>}

ClockInstants ==
    {DateTime(ymd[1][1], ymd[1][2], ymd[2], hms[1], hms[2], hms[3]) :
        ymd \in ClockDays, hms \in ClockTimes}

\* Arguments of the calls that read the clock, limit and sort order left out.
ClockArgumentsOf(name) ==
    IF name = "get_agenda_events" THEN FilterArgs
    ELSE Opt("days_ahead", {PyInt(0), PyInt(1), PyInt(7), PyInt(45)})

\* A call of one of the tools that read the clock, at any of ClockInstants.
CallClock(s) ==
    /\ phase = "serving"
    /\ inv[s].pc = "idle"
    /\ \E name \in ClockTools :
       \E a \in ClockArgumentsOf(name) :
       \E now \in ClockInstants :
        Invoke(s, name, a, now)

NextClock ==
    \/ \E s \in Slots : CallClock(s)
    \/ \E s \in Slots : Respond(s)
    \/ \E s \in Slots : Return(s)

SpecClock == InitBuild /\ [][NextClock]_vars

\* Search terms: absent, empty, plain, with characters of the filter and URL
\* syntax, a blank, and a number.
TermArgs ==
    Opt("search_term", {PyStr(<<>>), PyStr(<<"dupont">>), PyStr(<<"o", "'", "&", "x">>),
                        PyStr(<<")", " ", "OR", "%">>), PyStr(<<" ">>),
                        PyInt(5)})

\* Arguments of the list calls of the four searchable or plain resources;
\* proposals and tickets are also given arguments they do not declare.
ListArgumentsOf(name) ==
    IF name \in {"search_contacts", "get_companies"}
    THEN {x @@ y : x \in TermArgs, y \in Opt("limit", {PyInt(0)})}
    ELSE {x @@ y @@ z :
            x \in Opt("search_term", {PyStr(<<"dupont">>)}),
            y \in Opt("filter_type", {PyStr(<<"today">>)}),
            z \in Opt("sqlfilters", {PyStr(LikeClause("t.ref", <<"a">>))})}

\* A list call of contacts, companies, proposals or tickets.
CallList(s) ==
    /\ phase = "serving"
    /\ inv[s].pc = "idle"
    /\ \E name \in ListTools \ ClockTools :
       \E a \in ListArgumentsOf(name) :
        Invoke(s, name, a, NoInstant)

NextList ==
    \/ \E s \in Slots : CallList(s)
    \/ \E s \in Slots : Respond(s)
    \/ \E s \in Slots : Return(s)

SpecList == InitBuild /\ [][NextList]_vars

\* Two invocations in progress at once.
TwoSlots == {"a", "b"}

\* The calls made two at a time: each with its arguments and its instant.
TwoCalls ==
    {<<"search_contacts", a, NoInstant>> : a \in SearchArgs}
    \cup {<<"create_agenda_event", a, NoInstant>> : a \in Opt("userownerid", {PyInt(9)})}
    \cup {<<"get_upcoming_events", NoMembers, now>> : now \in Instants}
    \cup {<<"update_ticket", a, NoInstant>> : a \in IdArgs("ticket_id")}

TwoOutcomes ==
    {HttpOutcome(200, TRUE, PyInt(42)), TimeoutOutcome, HttpOutcome(404, TRUE, ErrorBody(404))}

CallTwo(s) ==
    /\ phase = "serving"
    /\ inv[s].pc = "idle"
    /\ \E c \in TwoCalls : Invoke(s, c[1], c[2], c[3])

RespondTwo(s) ==
    /\ inv[s].pc = "awaiting"
    /\ \E o \in TwoOutcomes : Complete(s, o)

NextTwo ==
    \/ \E s \in TwoSlots : CallTwo(s)
    \/ \E s \in TwoSlots : RespondTwo(s)
    \/ \E s \in TwoSlots : Return(s)

InitTwo ==
    /\ config \in {c \in Configs : c.DOLIBARR_API_KEY /= <<>> /\ c.DOLIBARR_BASE_URL /= <<>>}
    /\ phase = "serving"
    /\ startup = [request |-> search_contacts(PyStr(<<>>), PyInt(1), PyNone).v, done |-> TRUE,
                  outcome |-> Seen(HttpOutcome(200, TRUE, PyList(<<>>)))]
    /\ inv = [s \in TwoSlots |-> IdleInvocation]
    /\ history = {}
    /\ bp = NoBuild

SpecTwo == InitTwo /\ [][NextTwo]_vars

\* Instants at which a future and a past agenda list are asked for.
PairInstants ==
    {DateTime(2024, 12, 31, 23, 59, 59), DateTime(2024, 2, 29, 0, 0, 0),
     DateTime(2023, 2, 27, 10, 30, 15)}

\* An agenda list with filter_type future or past, one of two in progress.
CallPair(s) ==
    /\ phase = "serving"
    /\ inv[s].pc = "idle"
    /\ \E filter_type \in {"future", "past"} :
       \E now \in PairInstants :
        Invoke(s, "get_agenda_events", "filter_type" :> PyStr(<<filter_type>>), now)

NextPair ==
    \/ \E s \in TwoSlots : CallPair(s)
    \/ \E s \in TwoSlots : RespondTwo(s)
    \/ \E s \in TwoSlots : Return(s)

SpecPair == InitTwo /\ [][NextPair]_vars

(* --------------------------- Reading the results ------------------------ *)

RECURSIVE SplitAt(_, _, _)
\* The pieces of s in the runs that sep separates; `run` is the run being read.
SplitAt(s, sep, run) ==
    IF s = <<>> THEN <<run>>
    ELSE IF s[1] = sep THEN <<run>> \o SplitAt(Tail(s), sep, <<>>)
    ELSE SplitAt(Tail(s), sep, Append(run, s[1]))

RECURSIVE After(_, _)
\* What follows the first piece `mark` in s; nothing when s has no such piece.
After(s, mark) ==
    IF s = <<>> THEN <<>>
    ELSE IF s[1] = mark THEN Tail(s)
    ELSE After(Tail(s), mark)

RECURSIVE Before(_, _)
\* What precedes the first piece `mark` in s; all of s when it has no such piece.
Before(s, mark) ==
    IF s = <<>> \/ s[1] = mark THEN <<>>
    ELSE <<s[1]>> \o Before(Tail(s), mark)

\* The parameters of a query string or URL, as a server reads them: what
\* follows "?", cut at each "&", each cut at its first "=".
QueryParams(q) ==
    LET query == After(q, "?")
        parts == IF query = <<>> THEN <<>> ELSE SplitAt(query, "&", <<>>)
    IN  [i \in 1..Len(parts) |->
            [key |-> Before(parts[i], "="), value |-> After(parts[i], "=")]]

\* The values of the parameters of q named key, in order.
ValuesOf(q, key) ==
    LET ps == QueryParams(q)
        F[i \in 0..Len(ps)] ==
            IF i = 0 THEN <<>>
            ELSE IF ps[i].key = <<key>> THEN Append(F[i - 1], ps[i].value)
            ELSE F[i - 1]
    IN  F[Len(ps)]

\* What a server reads back from a percent-encoded value: each %XX piece
\* becomes the character it stands for.
Unquote(s) ==
    [i \in 1..Len(s) |->
        IF \E c \in DOMAIN QuoteTable : QuoteTable[c] = s[i]
        THEN CHOOSE c \in DOMAIN QuoteTable : QuoteTable[c] = s[i]
        ELSE s[i]]

\* The characters that delimit or break a parameter of a query string.
QueryDelimiters == {"&", "=", "?", "#", " ", "'", "\"", "+", "%"}

\* The filter expression the remote API reads from the request of invocation i.
FilterOf(i) ==
    LET values == ValuesOf(i.request.url, "sqlfilters")
    IN  IF values = <<>> THEN <<>> ELSE Unquote(values[1])

\* One comparison "field op 'value'" of a filter expression.
Comparison(c) ==
    LET t == IF c /= <<>> /\ c[1] = " " THEN Tail(c) ELSE c
    IN  [field |-> t[1], op |-> Before(Tail(Tail(t)), " "),
         value |-> Before(After(t, "'"), "'")]

\* The comparisons a filter expression joins with AND.
Comparisons(expr) ==
    LET parts == IF expr = <<>> THEN <<>> ELSE SplitAt(expr, "AND", <<>>)
    IN  [k \in 1..Len(parts) |-> Comparison(parts[k])]

\* The comparison of the event date with an instant written YYYY-MM-DD HH:MM:SS.
OnDate(op, y, mo, d, h, mi, sec) ==
    [field |-> "t.datep", op |-> op, value |-> Strftime(DateTime(y, mo, d, h, mi, sec))]

\* Invocation i of get_agenda_events with the given filter_type has sent its request.
AgendaCall(i, filter_type) ==
    /\ i.name = "get_agenda_events" /\ i.pc /= "idle"
    /\ "filter_type" \in DOMAIN i.arguments
    /\ i.arguments["filter_type"] = PyStr(<<filter_type>>)

\* The day of the week of a calendar date by Zeller's congruence, Monday 0 to
\* Sunday 6.
DayOfWeek(y, mo, d) ==
    LET m == IF mo < 3 THEN mo + 12 ELSE mo
        yy == IF mo < 3 THEN y - 1 ELSE y
        k == yy % 100
        j == yy \div 100
        h == (d + ((13 * (m + 1)) \div 5) + k + (k \div 4) + (j \div 4) + 5 * j) % 7
    IN  (h + 5) % 7

\* The calendar day before and the calendar day after <<y, mo, d>>.
DayBefore(ymd) ==
    IF ymd[3] > 1 THEN <<ymd[1], ymd[2], ymd[3] - 1>>
    ELSE IF ymd[2] > 1 THEN <<ymd[1], ymd[2] - 1, DaysInMonth(ymd[1], ymd[2] - 1)>>
    ELSE <<ymd[1] - 1, 12, 31>>

DayAfter(ymd) ==
    IF ymd[3] < DaysInMonth(ymd[1], ymd[2]) THEN <<ymd[1], ymd[2], ymd[3] + 1>>
    ELSE IF ymd[2] < 12 THEN <<ymd[1], ymd[2] + 1, 1>>
    ELSE <<ymd[1] + 1, 1, 1>>

RECURSIVE DaysBack(_, _)
DaysBack(ymd, n) == IF n = 0 THEN ymd ELSE DaysBack(DayBefore(ymd), n - 1)

RECURSIVE DaysOn(_, _)
DaysOn(ymd, n) == IF n = 0 THEN ymd ELSE DaysOn(DayAfter(ymd), n - 1)

\* Equality of two texts, written one character per piece, up to letter case.
SameIgnoringCase(s, t) ==
    /\ Len(s) = Len(t)
    /\ \A i \in 1..Len(s) :
        \/ s[i] = t[i]
        \/ \E j \in 1..Len(LowerLetters) :
            {s[i], t[i]} = {LowerLetters[j], UpperLetters[j]}

\* A tool result that reports a failure: the text the except clause writes.
IsErrorText(text) == text /= <<>> /\ text[1] = "Erreur: "

\* The texts with which the dispatcher reports a success.
SuccessPrefixes ==
    {"Contact créé avec succès. ID: ", "Entreprise créée avec succès. ID: ",
     "Proposition créée avec succès. ID: ", "Événement d'agenda créé avec succès. ID: ",
     "Événement d'agenda mis à jour avec succès. ID: ",
     "Événement d'agenda supprimé avec succès. ID: ", "Ticket créé avec succès. ID: ",
     "Ticket mis à jour avec succès. ID: ", "Message ajouté au ticket avec succès.",
     "Ticket supprimé avec succès. ID: "}

IsSuccessText(text) == text /= <<>> /\ text[1] \in SuccessPrefixes

\* Whether the pieces of `part` stand in `text` one after the other.
Contains(text, part) ==
    \E i \in 0..(Len(text) - Len(part)) :
        \A j \in 1..Len(part) : text[i + j] = part[j]

(* --------------------------------- Claims ------------------------------- *)

\* An invocation whose request has completed with a parsed body.
GotBody(i) ==
    /\ i.pc = "done" /\ i.nreq = 1
    /\ i.outcome.kind = "http" /\ i.outcome.status < 400 /\ i.outcome.json

\* The record a creation wraps an identifier in.
Created(id) == PyDict([id |-> id, status |-> PyStr(<<"created">>)])

\* C1: each of the five create operations returns {id: n or its text, status:
\* "created"} for a bare integer response n, the response itself when it is an
\* object, and {id: text of v, status: "created"} for any other response v.
C1_CreateNormalization ==
    \A s \in DOMAIN inv :
        LET i == inv[s]
            b == i.outcome.body
        IN  (GotBody(i) /\ i.name \in CreateTools) =>
                CASE b.t = "int" ->
                        i.returned \in {Created(PyInt(b.n)), Created(PyStr(IntText(b.n)))}
                  [] b.t = "dict" -> i.returned = b
                  [] OTHER -> i.returned = Created(PyStr(Str(b)))

GetUpdateDeleteTools == GetTools \cup UpdateTools \cup DeleteTools

\* C2: a get, update or delete invocation answered with status 400 or 404
\* gives an error text, which contains the message nested in the response body
\* when there is one, and never a success message.
C2_RemoteErrorMessageInResult ==
    \A s \in DOMAIN inv :
        LET i == inv[s]
        IN  (/\ i.pc = "done" /\ i.nreq = 1
             /\ i.name \in GetUpdateDeleteTools
             /\ i.outcome.kind = "http" /\ i.outcome.status \in {400, 404}) =>
                /\ IsErrorText(i.text)
                /\ ~IsSuccessText(i.text)
                /\ HasErrorMessage(i.outcome) => Contains(i.text, ErrorMessage(i.outcome))

\* The network call failed: timeout, connection error, status >= 400 or a body
\* that is not JSON.
NetworkFailed(o) ==
    \/ o.kind \in {"timeout", "connect"}
    \/ o.kind = "http" /\ (o.status >= 400 \/ ~o.json)

\* C3: when the network call of an invocation fails, the operation returns no
\* value and the tool result is an error text: not a success message, not an
\* empty list, not an empty record.
C3_NetworkFailureIsErrorText ==
    \A s \in DOMAIN inv :
        LET i == inv[s]
        IN  (i.pc = "done" /\ i.nreq = 1 /\ NetworkFailed(i.outcome)) =>
                /\ i.returned = PyNone
                /\ IsErrorText(i.text)
                /\ ~IsSuccessText(i.text)
                /\ i.text \notin {Dumps(PyList(<<>>)), Dumps(PyDict(NoMembers))}

C3_Witness ==
    \E s \in DOMAIN inv :
        /\ inv[s].pc = "done" /\ inv[s].name = "search_contacts"
        /\ inv[s].outcome = HttpOutcome(200, FALSE, PyNone)
        /\ inv[s].text = <<"Erreur: ", "Expecting value: line 1 column 1 (char 0)">>

\* C4: once startup has succeeded the service keeps serving whatever the tool
\* invocations do, and every invocation that returns hands back a text, no
\* exception leaving the handler.
C4_ServingSurvivesEveryCall ==
    [][/\ phase = "serving" => phase' = "serving"
       /\ \A s \in DOMAIN inv :
            inv'[s].pc = "done" => (inv'[s].text /= <<>> /\ ~inv'[s].escaped)]_vars

C4_Witness ==
    /\ phase = "serving"
    /\ history = {"unknown_tool", "bad_arguments", "connectivity_error", "remote_error"}
    /\ \E s \in DOMAIN inv :
        /\ inv[s].pc = "done" /\ OutcomeKind(inv[s]) = "success"
        /\ IsSuccessText(inv[s].text)

\* C5: a tool name the dispatcher does not handle gets an error text, sends no
\* request and leaves the service serving.
C5_UnknownToolIsErrorText ==
    \A s \in DOMAIN inv :
        LET i == inv[s]
        IN  (i.pc /= "idle" /\ i.name \notin DispatchedTools) =>
                /\ i.pc = "done"
                /\ i.nreq = 0 /\ i.request = NoRequest
                /\ IsErrorText(i.text)
                /\ ~i.escaped
                /\ phase = "serving"

C5_Witness ==
    \E s \in DOMAIN inv :
        /\ inv[s].pc = "done" /\ inv[s].name = "get_invoices"
        /\ inv[s].text = <<"Erreur: ", "Outil inconnu: ", "get_invoices">>
        /\ inv[s].nreq = 0

\* C6: an invocation that omits an argument the catalog declares required
\* gives an error text and never a success result.
C6_MissingRequiredArgumentFails ==
    \A s \in DOMAIN inv :
        LET i == inv[s]
        IN  (/\ i.pc = "done" /\ i.name \in DispatchedTools
             /\ ~(RequiredArguments(i.name) \subseteq DOMAIN i.arguments)) =>
                IsErrorText(i.text) /\ ~IsSuccessText(i.text)

\* The limit a builder call works with: the argument, or the configured
\* default when the argument is absent.
EffectiveLimit == IF bp.limit.t = "none" THEN config.DEFAULT_LIMIT ELSE bp.limit.n

\* The sort order a builder call works with.
EffectiveSortOrder ==
    IF bp.sort_order.t = "none" THEN config.DEFAULT_SORT_ORDER ELSE bp.sort_order.s

\* C7: the built query string has no limit parameter when the limit (the
\* configured default if absent) is 0, and exactly one, limit=<value>, when it
\* is greater than 0.
C7_LimitParameter ==
    bp.called =>
        /\ bp.out.ok
        /\ EffectiveLimit = 0 => ValuesOf(bp.out.v.s, "limit") = <<>>
        /\ EffectiveLimit > 0 => ValuesOf(bp.out.v.s, "limit") = <<IntText(EffectiveLimit)>>

C7_Witness ==
    /\ bp.called /\ bp.limit = PyNone /\ config.DEFAULT_LIMIT = 100
    /\ bp.search_filters /= PyStr(<<>>)
    /\ ValuesOf(bp.out.v.s, "limit") = <<<<"100">>>>

\* C8: a sort order that is neither ASC nor DESC in any letter case (an
\* invalid configured default included) gives no sortorder and no sortfield
\* parameter and raises nothing; ASC or DESC in any letter case gives
\* sortorder in upper case.
C8_SortOrderParameter ==
    bp.called =>
        /\ bp.out.ok
        /\ IF SameIgnoringCase(EffectiveSortOrder, ASC)
           THEN ValuesOf(bp.out.v.s, "sortorder") = <<ASC>>
           ELSE IF SameIgnoringCase(EffectiveSortOrder, DESC)
           THEN ValuesOf(bp.out.v.s, "sortorder") = <<DESC>>
           ELSE /\ ValuesOf(bp.out.v.s, "sortorder") = <<>>
                /\ ValuesOf(bp.out.v.s, "sortfield") = <<>>

C8_Witness ==
    /\ bp.called /\ bp.sort_order = PyNone
    /\ config.DEFAULT_SORT_ORDER = <<"n", "o", "n", "e">>
    /\ bp.sort_field = PyStr(<<"t.name">>)
    /\ bp.out = Ok(PyStr(<<"?", "limit", "=", "1">>))

SortOrderOf(i) ==
    IF "sort_order" \in DOMAIN i.arguments
    THEN i.arguments["sort_order"].s
    ELSE config.DEFAULT_SORT_ORDER

\* C10: every get_agenda_events call in which sorting is active, with or
\* without a time-window filter, sends a request whose one sortfield parameter
\* is t.datep.
C10_AgendaSortField ==
    \A s \in DOMAIN inv :
        LET i == inv[s]
        IN  (/\ i.name = "get_agenda_events" /\ i.nreq = 1
             /\ SameIgnoringCase(SortOrderOf(i), ASC) \/ SameIgnoringCase(SortOrderOf(i), DESC)) =>
                ValuesOf(i.request.url, "sortfield") = <<<<"t.datep">>>>

C10_Witness ==
    \E s \in DOMAIN inv :
        /\ inv[s].pc = "awaiting" /\ inv[s].name = "get_agenda_events"
        /\ inv[s].arguments = ("filter_type" :> PyStr(<<"this_week">>))
                              @@ ("sort_order" :> PyStr(<<"a", "s", "c">>))
        /\ ValuesOf(inv[s].request.url, "sortorder") = <<ASC>>
        /\ ValuesOf(inv[s].request.url, "sortfield") = <<<<"t.datep">>>>
        /\ ValuesOf(inv[s].request.url, "sqlfilters") /= <<>>

\* The number of parameters a builder call emits besides the filter.
OtherParams ==
    (IF EffectiveLimit > 0 THEN 1 ELSE 0)
    + (IF SameIgnoringCase(EffectiveSortOrder, ASC) \/ SameIgnoringCase(EffectiveSortOrder, DESC)
       THEN 2 ELSE 0)

\* C11: a non-empty filter expression is in the built query string as exactly
\* one sqlfilters parameter, whose value reads back as the whole expression and
\* holds no character that delimits a parameter, so that the expression adds
\* one parameter and no more; an empty filter expression gives no sqlfilters
\* parameter.
C11_FilterIsOneEncodedParameter ==
    bp.called =>
        /\ bp.out.ok
        /\ LET values == ValuesOf(bp.out.v.s, "sqlfilters")
           IN  IF bp.search_filters.s /= <<>>
               THEN /\ Len(values) = 1
                    /\ Unquote(values[1]) = bp.search_filters.s
                    /\ \A k \in 1..Len(values[1]) : values[1][k] \notin QueryDelimiters
                    /\ Len(QueryParams(bp.out.v.s)) = OtherParams + 1
               ELSE /\ values = <<>>
                    /\ Len(QueryParams(bp.out.v.s)) = OtherParams

C11_Witness ==
    /\ bp.called /\ bp.limit = PyInt(1) /\ bp.sort_order = PyStr(ASC)
    /\ Contains(bp.search_filters.s, <<"&", "sqlfilters", "=", "x">>)
    /\ Contains(bp.out.v.s, <<"%26", "sqlfilters", "%3D", "x", "%22">>)
    /\ Len(QueryParams(bp.out.v.s)) = 4

\* The keys create_agenda_event fills in, with the value each gets when the
\* caller left it out; owner is the owner identifier in effect.
AgendaDefault(key, owner) ==
    CASE key = "userownerid" -> PyInt(DefaultOwnerId)
      [] key = "userassigned" ->
            PyDict(Flat(Str(owner)) :>
                PyDict([id |-> PyStr(Str(owner)), mandatory |-> PyStr(<<"0">>),
                        answer_status |-> PyStr(<<"0">>), transparency |-> PyStr(<<"0">>)]))
      [] key = "percentage" -> PyInt(-1)
      [] key \in {"priority", "fulldayevent", "transparency"} -> PyInt(0)

AgendaDefaultedKeys ==
    {"userownerid", "userassigned", "percentage", "priority", "fulldayevent", "transparency"}

\* C12: the payload create_agenda_event posts carries every key of the caller
\* with the caller's value, falsy or not, and each of the six defaulted keys the
\* caller left out with its default: the fixed owner for userownerid, and for
\* userassigned one entry keyed by the text of the owner in effect.
C12_AgendaDefaultsOnlyWhenMissing ==
    \A s \in DOMAIN inv :
        LET i == inv[s]
            a == i.arguments
            sent == i.request.data
            owner == IF "userownerid" \in DOMAIN a THEN a["userownerid"]
                     ELSE PyInt(DefaultOwnerId)
        IN  (i.name = "create_agenda_event" /\ i.pc /= "idle") =>
                /\ i.nreq = 1 /\ i.request.method = "POST"
                /\ sent.t = "dict"
                /\ DOMAIN sent.m = DOMAIN a \cup AgendaDefaultedKeys
                /\ \A k \in DOMAIN a : sent.m[k] = a[k]
                /\ \A k \in AgendaDefaultedKeys \ DOMAIN a :
                        sent.m[k] = AgendaDefault(k, owner)

C12_Witness ==
    \E s \in DOMAIN inv :
        /\ inv[s].name = "create_agenda_event" /\ inv[s].pc = "awaiting"
        /\ inv[s].arguments =
                [userownerid |-> PyInt(0), percentage |-> PyInt(0), priority |-> PyNone]
        /\ DOMAIN inv[s].request.data.m["userassigned"].m = {"0"}
        /\ inv[s].request.data.m["percentage"] = PyInt(0)
        /\ inv[s].request.data.m["priority"] = PyNone
        /\ inv[s].request.data.m["fulldayevent"] = PyInt(0)

\* C13: with filter_type this_month the filter bounds the event date from
\* 00:00:00 on day 1 of the current month to 23:59:59 on the last day of the
\* same month and year, whatever the length of the month and the current day;
\* in December the upper bound is December 31 of the same year.
C13_ThisMonthBounds ==
    \A s \in DOMAIN inv :
        LET i == inv[s]
            y == i.now.year
            mo == i.now.month
        IN  AgendaCall(i, "this_month") =>
                /\ i.nreq = 1
                /\ Comparisons(FilterOf(i)) =
                        <<OnDate(<<">", "=">>, y, mo, 1, 0, 0, 0),
                          OnDate(<<"<", "=">>, y, mo, DaysInMonth(y, mo), 23, 59, 59)>>

C13_Witness ==
    \E s \in DOMAIN inv :
        /\ AgendaCall(inv[s], "this_month")
        /\ inv[s].now = DateTime(2024, 12, 31, 23, 59, 59)
        /\ Comparisons(FilterOf(inv[s]))[2].value =
                <<"2024", "-", "12", "-", "31", " ", "23", ":", "59", ":", "59">>

\* C14: with filter_type today the filter is the conjunction of two bounds on
\* the event date, the current calendar day at 00:00:00 and the same day at
\* 23:59:59, each written YYYY-MM-DD HH:MM:SS.
C14_TodayBounds ==
    \A s \in DOMAIN inv :
        LET i == inv[s]
            n == i.now
        IN  AgendaCall(i, "today") =>
                /\ i.nreq = 1
                /\ Comparisons(FilterOf(i)) =
                        <<OnDate(<<">", "=">>, n.year, n.month, n.day, 0, 0, 0),
                          OnDate(<<"<", "=">>, n.year, n.month, n.day, 23, 59, 59)>>
                /\ Len(SplitAt(FilterOf(i), "AND", <<>>)) = 2

C14_Witness ==
    \E s \in DOMAIN inv :
        /\ AgendaCall(inv[s], "today")
        /\ inv[s].now = DateTime(2024, 2, 29, 23, 59, 59)
        /\ FilterOf(inv[s]) =
                <<"t.datep", " ", ">", "=", " ", "'",
                  "2024", "-", "02", "-", "29", " ", "00", ":", "00", ":", "00", "'",
                  " ", "AND", " ", "t.datep", " ", "<", "=", " ", "'",
                  "2024", "-", "02", "-", "29", " ", "23", ":", "59", ":", "59", "'">>

\* C15: with filter_type this_week the lower bound is 00:00:00 on the Monday of
\* the week that holds the current instant (the current day when it is a
\* Monday) and the upper bound is 23:59:59 on the Sunday six days later, also
\* when the week crosses the end of a month or of a year.
C15_ThisWeekBounds ==
    \A s \in DOMAIN inv :
        LET i == inv[s]
            n == i.now
            monday == DaysBack(<<n.year, n.month, n.day>>, DayOfWeek(n.year, n.month, n.day))
            sunday == DaysOn(monday, 6)
        IN  AgendaCall(i, "this_week") =>
                /\ i.nreq = 1
                /\ DayOfWeek(monday[1], monday[2], monday[3]) = 0
                /\ DayOfWeek(sunday[1], sunday[2], sunday[3]) = 6
                /\ Comparisons(FilterOf(i)) =
                        <<OnDate(<<">", "=">>, monday[1], monday[2], monday[3], 0, 0, 0),
                          OnDate(<<"<", "=">>, sunday[1], sunday[2], sunday[3], 23, 59, 59)>>

C15_Witness ==
    \E s \in DOMAIN inv :
        /\ AgendaCall(inv[s], "this_week")
        /\ inv[s].now = DateTime(2025, 1, 1, 0, 0, 0)
        /\ Comparisons(FilterOf(inv[s])) =
                <<OnDate(<<">", "=">>, 2024, 12, 30, 0, 0, 0),
                  OnDate(<<"<", "=">>, 2025, 1, 5, 23, 59, 59)>>

\* C16: every get_upcoming_events call asks for ascending order on the event
\* date whatever the configured default order, with the filter now <= event
\* date <= now + days_ahead, both ends included; without arguments the window
\* is 30 days and the limit 50, whatever the configured default limits.
C16_UpcomingEvents ==
    \A s \in DOMAIN inv :
        LET i == inv[s]
            n == i.now
            days == IF "days_ahead" \in DOMAIN i.arguments
                    THEN i.arguments["days_ahead"].n ELSE 30
            end == DaysOn(<<n.year, n.month, n.day>>, days)
        IN  (/\ i.name = "get_upcoming_events" /\ i.pc /= "idle"
             /\ "limit" \in DOMAIN i.arguments => i.arguments["limit"].t = "int") =>
                /\ i.nreq = 1
                /\ ValuesOf(i.request.url, "sortorder") = <<ASC>>
                /\ ValuesOf(i.request.url, "sortfield") = <<<<"t.datep">>>>
                /\ Comparisons(FilterOf(i)) =
                        <<OnDate(<<">", "=">>, n.year, n.month, n.day,
                                 n.hour, n.minute, n.second),
                          OnDate(<<"<", "=">>, end[1], end[2], end[3],
                                 n.hour, n.minute, n.second)>>
                /\ "limit" \notin DOMAIN i.arguments =>
                        ValuesOf(i.request.url, "limit") = <<<<"50">>>>

C16_Witness ==
    \E s \in DOMAIN inv :
        /\ inv[s].name = "get_upcoming_events" /\ inv[s].pc = "awaiting"
        /\ inv[s].arguments = NoMembers
        /\ config.DEFAULT_SORT_ORDER /= DESC /\ config.DEFAULT_LIMIT = 0
        /\ inv[s].now = DateTime(2024, 12, 15, 10, 30, 15)
        /\ Comparisons(FilterOf(inv[s]))[2] = OnDate(<<"<", "=">>, 2025, 1, 14, 10, 30, 15)
        /\ ValuesOf(inv[s].request.url, "sortorder") = <<ASC>>

\* The arguments of invocation i have the types the operation computes with:
\* a numeric limit, a whole number of days, and for an update the identifier.
ArgumentsAccepted(i) ==
    /\ "limit" \in DOMAIN i.arguments => i.arguments["limit"].t = "int"
    /\ "days_ahead" \in DOMAIN i.arguments => i.arguments["days_ahead"].t = "int"
    /\ i.name \in UpdateTools =>
            RequiredArguments(i.name) \subseteq DOMAIN i.arguments

\* C17: an invocation never has more than one network request; an invocation
\* of a dispatched tool whose arguments the operation accepts has exactly one;
\* the request has completed, with a response or a failure, before the result
\* is there; while it is outstanding there is no result.
C17_OneRequestPerInvocation ==
    \A s \in DOMAIN inv :
        LET i == inv[s]
        IN  /\ i.nreq \in {0, 1}
            /\ (i.pc /= "idle" /\ i.name \in DispatchedTools /\ ArgumentsAccepted(i)) =>
                    i.nreq = 1
            /\ i.pc = "awaiting" =>
                    /\ i.nreq = 1 /\ i.request /= NoRequest
                    /\ i.outcome = NoOutcome /\ i.text = <<>>
            /\ (i.pc = "done" /\ i.nreq = 1) => i.outcome /= NoOutcome
            /\ i.text /= <<>> => i.pc = "done"
            /\ i.nreq = 0 => i.request = NoRequest /\ i.outcome = NoOutcome

C17_Witness ==
    \E s \in DOMAIN inv :
        /\ inv[s].pc = "done" /\ inv[s].name = "get_tickets"
        /\ inv[s].nreq = 1 /\ inv[s].outcome = TimeoutOutcome
        /\ IsErrorText(inv[s].text)

\* The base URL or the API key is empty.
ConfigurationMissing == config.DOLIBARR_BASE_URL = <<>> \/ config.DOLIBARR_API_KEY = <<>>

\* A tool call is being served or has been served.
SomeCallServed == history /= {} \/ \E s \in DOMAIN inv : inv[s].pc /= "idle"

\* C18: tool calls are served only after startup completed. With an empty base
\* URL or API key the process exits before sending anything; otherwise it sends
\* one contact search of one record and exits when that search fails; a
\* process that exited has served no tool call.
C18_NoCallBeforeStartup ==
    /\ (phase = "serving" \/ SomeCallServed) =>
            /\ phase = "serving"
            /\ ~ConfigurationMissing
            /\ startup.done /\ ~NetworkFailed(startup.outcome)
            /\ startup.request.method = "GET"
            /\ Contains(startup.request.url, <<"/", "contacts", "?">>)
            /\ ValuesOf(startup.request.url, "limit") = <<<<"1">>>>
            /\ ValuesOf(startup.request.url, "sqlfilters") = <<>>
    /\ (ConfigurationMissing /\ phase /= "boot") =>
            phase = "exited" /\ startup = NoStartup
    /\ (startup.done /\ NetworkFailed(startup.outcome)) => phase = "exited"
    /\ phase = "exited" => ~SomeCallServed

C18_Witness ==
    /\ phase = "exited" /\ ~ConfigurationMissing
    /\ startup.done /\ startup.outcome = Seen(HttpOutcome(404, TRUE, PyNone))
    /\ ValuesOf(startup.request.url, "limit") = <<<<"1">>>>

\* Invocation i run on its own, with its arguments, its instant and the
\* outcome of its request: what it sends and what it returns.
AloneRequest(i) == tool_request(i.name, i.arguments, i.now)

AloneReturn(i) ==
    handle_call_tool_return(i.name, i.arguments,
        IF AloneRequest(i).ok THEN make_request_result(i.outcome, AloneRequest(i).v)
        ELSE AloneRequest(i))

CatalogNames == {CatalogTools[k] : k \in 1..Len(CatalogTools)}

\* Invocation i ended in the unknown-tool branch of the dispatcher.
EndedAsUnknownTool(i) ==
    i.pc = "done" /\ i.nreq = 0 /\ i.text = <<"Erreur: ", "Outil inconnu: ", i.name>>

\* Invocation i does what it would do with each default the catalog declares
\* for an argument it leaves out passed in its place.
DeclaredDefaultsUsed(i) ==
    \A key \in DOMAIN CatalogDefaults(i.name) \ DOMAIN i.arguments :
        LET r == tool_request(i.name, i.arguments @@ (key :> CatalogDefaults(i.name)[key]),
                              i.now)
        IN  i.request = (IF r.ok THEN r.v ELSE NoRequest)

\* The catalog and the dispatcher agree on every call.
CatalogAgreesWithDispatcher ==
    /\ Len(CatalogTools) = Cardinality(CatalogNames)
    /\ \A s \in DOMAIN inv :
        LET i == inv[s]
        IN  i.pc /= "idle" =>
                /\ i.name \in CatalogNames <=> ~EndedAsUnknownTool(i)
                /\ i.name \in CatalogNames <=> i.name \in DispatchedTools
                /\ DeclaredDefaultsUsed(i)

\* C20 as stated: the catalog lists exactly the 19 operations the dispatcher
\* accepts, every catalogued name is dispatched, every dispatched name is
\* catalogued, and each default the catalog declares for limit, sort_order
\* and days_ahead is the value the dispatcher uses for the absent argument.
C20_CatalogOfNineteen ==
    /\ phase = "serving" =>
            Cardinality(CatalogNames) = 19 /\ Cardinality(DispatchedTools) = 19
    /\ CatalogAgreesWithDispatcher

\* C20 amended: the same with 20 operations, the six list tools, five create
\* tools, four get tools, two update tools, two delete tools and
\* add_ticket_message.
C20_CatalogMatchesDispatcher ==
    /\ phase = "serving" =>
            Cardinality(CatalogNames) = 20 /\ Cardinality(DispatchedTools) = 20
    /\ CatalogAgreesWithDispatcher

C20_Witness ==
    \E s \in DOMAIN inv :
        /\ inv[s].name = "get_agenda_events" /\ inv[s].pc = "awaiting"
        /\ inv[s].arguments = NoMembers
        /\ config.DEFAULT_LIMIT = 100
        /\ ValuesOf(inv[s].request.url, "limit") = <<<<"20">>>>
        /\ history = {"unknown_tool"}

\* "(field:like:'%term%')", the comparison the remote API reads.
Like(field, term) ==
    <<"(", field, ":", "like", ":", "'", "%">> \o term \o <<"%", "'", ")">>

\* The search term of invocation i as text; empty when absent or falsy.
TermOf(i) ==
    IF "search_term" \in DOMAIN i.arguments /\ Truthy(i.arguments["search_term"])
    THEN Str(i.arguments["search_term"]) ELSE <<>>

\* The names of the parameters of the request of invocation i.
ParameterNames(i) ==
    {QueryParams(i.request.url)[k].key : k \in 1..Len(QueryParams(i.request.url))}

\* C21: a contact search with a non-empty term sends as filter the OR of the
\* like-comparisons of last name, first name and email with %term%; a company
\* search sends the one like-comparison of the name; an empty or absent term
\* sends no sqlfilters parameter; proposal and ticket lists never send one,
\* whatever their arguments.
C21_SearchFilters ==
    \A s \in DOMAIN inv :
        LET i == inv[s]
            term == TermOf(i)
        IN  (i.pc /= "idle" /\ i.nreq = 1) =>
                /\ (i.name = "search_contacts" /\ term /= <<>>) =>
                        /\ Len(ValuesOf(i.request.url, "sqlfilters")) = 1
                        /\ FilterOf(i) =
                                Like("t.lastname", term) \o <<" ", "OR", " ">>
                                \o Like("t.firstname", term) \o <<" ", "OR", " ">>
                                \o Like("t.email", term)
                /\ (i.name = "get_companies" /\ term /= <<>>) =>
                        /\ Len(ValuesOf(i.request.url, "sqlfilters")) = 1
                        /\ FilterOf(i) = Like("t.name", term)
                /\ (i.name \in {"search_contacts", "get_companies"} /\ term = <<>>) =>
                        <<"sqlfilters">> \notin ParameterNames(i)
                /\ i.name \in {"get_proposals", "get_tickets"} =>
                        ParameterNames(i) \subseteq {<<"limit">>, <<"sortorder">>, <<"sortfield">>}

C21_Witness ==
    \E s \in DOMAIN inv :
        /\ inv[s].name = "search_contacts" /\ inv[s].pc = "awaiting"
        /\ inv[s].arguments = ("search_term" :> PyStr(<<"o", "'", "&", "x">>))
        /\ Len(SplitAt(FilterOf(inv[s]), "OR", <<>>)) = 3
        /\ Contains(inv[s].request.url, <<"t.email", "%3A", "like", "%3A", "%27", "%25",
                                          "o", "%27", "%26", "x", "%25", "%27", "%29">>)

\* Event dates around the instants of the calls: the instant itself, one
\* second and one day before and after it.
EventDates ==
    {AddDelta(n, k[1], k[2]) :
        n \in PairInstants, k \in {<<0, 0>>, <<0, -1>>, <<0, 1>>, <<-1, 0>>, <<1, 0>>}}

\* d is strictly before b.
Earlier(d, b) ==
    \/ ToOrdinal(d) < ToOrdinal(b)
    \/ ToOrdinal(d) = ToOrdinal(b) /\ SecondOfDay(d) < SecondOfDay(b)

\* The remote API's reading of comparison c for an event of date d.
Holds(c, d) ==
    LET b == CHOOSE b \in PairInstants : Strftime(b) = c.value
    IN  /\ c.field = "t.datep"
        /\ CASE c.op = <<">", "=">> -> ~Earlier(d, b)
             [] c.op = <<">">> -> Earlier(b, d)
             [] c.op = <<"<", "=">> -> ~Earlier(b, d)
             [] c.op = <<"<">> -> Earlier(d, b)
             [] OTHER -> FALSE

\* The request of invocation i selects an event of date d.
Selects(i, d) ==
    \A k \in 1..Len(Comparisons(FilterOf(i))) : Holds(Comparisons(FilterOf(i))[k], d)

\* C22: a future list and a past list asked for at the same instant select
\* complementary sets of events: each is one comparison of the event date with
\* that instant, and every event date is selected by exactly one of the two.
C22_FutureAndPastComplementary ==
    \A s \in DOMAIN inv : \A t \in DOMAIN inv :
        (/\ AgendaCall(inv[s], "future") /\ AgendaCall(inv[t], "past")
         /\ inv[s].now = inv[t].now) =>
            /\ inv[s].nreq = 1 /\ inv[t].nreq = 1
            /\ Len(Comparisons(FilterOf(inv[s]))) = 1
            /\ Len(Comparisons(FilterOf(inv[t]))) = 1
            /\ Comparisons(FilterOf(inv[s]))[1].value = Strftime(inv[s].now)
            /\ Comparisons(FilterOf(inv[t]))[1].value = Strftime(inv[t].now)
            /\ \A d \in EventDates : Selects(inv[s], d) <=> ~Selects(inv[t], d)

C22_Witness ==
    /\ AgendaCall(inv["a"], "future") /\ AgendaCall(inv["b"], "past")
    /\ inv["a"].now = DateTime(2024, 12, 31, 23, 59, 59)
    /\ inv["b"].now = inv["a"].now
    /\ Selects(inv["a"], DateTime(2024, 12, 31, 23, 59, 59))
    /\ Selects(inv["a"], DateTime(2025, 1, 1, 0, 0, 0))
    /\ Selects(inv["b"], DateTime(2024, 12, 31, 23, 59, 58))
    /\ ~Selects(inv["b"], DateTime(2024, 12, 31, 23, 59, 59))

====
